---- MODULE Spec2Model ----
(***************************************************************************)
(* Model of the fetch_m3u8 crawler (src/app.py, src/send_mst.py).          *)
(*                                                                         *)
(* The orchestrator thread (main) walks a range of identifiers; for each   *)
(* it validates the page, resolves the episode count, fans the episodes    *)
(* out to a worker pool that shares one browser session under driver_lock, *)
(* persists the collected entries as an artifact and checkpoints progress. *)
(* Files are modelled by their content: the checkpoint file is a sequence  *)
(* of characters, an artifact name is a sequence of name tokens.           *)
(***************************************************************************)
EXTENDS Integers, Sequences, FiniteSets, TLC

\* ------------------------------------------------------------------ bounds

\* MAX_ID (the environment variable) ranges over 0..MaxCount.
MaxCount == 2
\* Largest episode count a page's dropdown announces in a run over at most one
\* identifier; in a run over several identifiers every page announces at most
\* one episode (see PageEps).
MaxEps == 2
\* Largest value saved in the round-trip specification of the progress tracker.
MaxK == 12

\* Number of consecutive runs of main.
MaxRuns == 2

\* --------------------------------------------------------- program constants

max_presses == 10
MAX_THREADS == 10

\* ------------------------------------------------------------ text helpers

DIGITS == <<"0", "1", "2", "3", "4", "5", "6", "7", "8", "9">>

IsDigit(c) == \E i \in 1..10 : DIGITS[i] = c

DigitVal(c) == (CHOOSE i \in 1..10 : DIGITS[i] = c) - 1

IsSpace(c) == c \in {" ", "\n", "\t"}

RECURSIVE NatStr(_)
\* decimal digits of a natural number, most significant first
NatStr(n) ==
  IF n < 10 THEN <<DIGITS[n + 1]>>
  ELSE NatStr(n \div 10) \o <<DIGITS[(n % 10) + 1]>>

\* Python str(k) of an int
str(k) == IF k < 0 THEN <<"-">> \o NatStr(0 - k) ELSE NatStr(k)

RECURSIVE LStrip(_)
LStrip(s) == IF s # <<>> /\ IsSpace(Head(s)) THEN LStrip(Tail(s)) ELSE s

RECURSIVE RStrip(_)
RStrip(s) ==
  IF s # <<>> /\ IsSpace(s[Len(s)]) THEN RStrip(SubSeq(s, 1, Len(s) - 1)) ELSE s

\* Python s.strip()
strip(s) == RStrip(LStrip(s))

\* The digits-and-underscores body int() accepts: digits, single underscores
\* only between digits.
IsIntBody(b) ==
  /\ b # <<>>
  /\ IsDigit(b[1])
  /\ IsDigit(b[Len(b)])
  /\ \A i \in 1..Len(b) : IsDigit(b[i]) \/ b[i] = "_"
  /\ \A i \in 1..(Len(b) - 1) : ~(b[i] = "_" /\ b[i + 1] = "_")

RECURSIVE BodyVal(_, _)
BodyVal(b, acc) ==
  IF b = <<>> THEN acc
  ELSE IF Head(b) = "_" THEN BodyVal(Tail(b), acc)
  ELSE BodyVal(Tail(b), 10 * acc + DigitVal(Head(b)))

Unsigned(t) == IF t # <<>> /\ Head(t) \in {"+", "-"} THEN Tail(t) ELSE t

\* int(s) raises ValueError
IntRaises(s) == ~IsIntBody(Unsigned(strip(s)))

\* Python int(s) of a string that parses
int(s) ==
  LET t == strip(s)
      v == BodyVal(Unsigned(t), 0)
  IN IF Head(t) = "-" THEN 0 - v ELSE v

\* ------------------------------------------------------------------- state

VARIABLES
  pc,              \* position of the orchestrator thread in main
  mainExit,        \* "running", "returned" or "raised": how main ended
  pending,         \* an exception raised inside main's except handler is pending
  maxId,           \* MAX_ID
  testingFlag,     \* TESTING_FLAG
  progressFile,    \* the checkpoint file: [exists, text]
  last_saved_id,   \* main's last_saved_id
  lastLoad,        \* how the read of load_progress ended ("none" before it)
  dropdown,        \* the select control handed to get_total_episodes on its own
  run,             \* number of this run of main, counted from 1
  earlier,         \* identifiers whose loop body ran to its end in earlier runs
  clean,           \* every earlier run that wrote the checkpoint had read it and
                   \* wrote it last with success
  nextId,          \* next value of main's range iterator
  anime_id,        \* main's loop variable
  current_id,      \* main's current_id
  driver,          \* "none", "open" or "closed"
  sessionUrl,      \* the URL the shared session shows
  page,            \* rendered content of a watch page: [title, notFound]
  total_eps,       \* extract_anime_urls' total_eps
  wstate,          \* per episode: state of its future / worker
  attempts,        \* per episode: keypress+scan attempts of extract_video_url
  result,          \* per episode: value the future returns (<<>> is None)
  driver_lock,     \* 0 when free, else the episode whose worker holds it
  episode_entries, \* extract_anime_urls' episode_entries
  episode_data,    \* main's episode_data (<<>> stands for None and for [])
  outputDir,       \* files of OUTPUT_DIR
  caught,          \* where the exception main's inner handler caught was raised
                   \* ("none" outside the handler)
  debugCalls,      \* <<identifier, reason>> of the save_debug_snapshot calls for the
                   \* current identifier
  saves,           \* arguments of the save_progress calls of this run, in order
  lastSaveOk,      \* the most recent save_progress call wrote the file
  processed        \* identifiers whose loop body has run to its end, in order

vars ==
  <<pc, mainExit, pending, maxId, testingFlag, progressFile, last_saved_id,
    lastLoad, dropdown, run, earlier, clean, nextId, anime_id, current_id,
    driver, sessionUrl, page, total_eps, wstate, attempts, result, driver_lock,
    episode_entries, episode_data, outputDir, caught, debugCalls, saves,
    lastSaveOk, processed>>

envVars == <<maxId, testingFlag, dropdown, run, earlier, clean>>
runVars == <<envVars, lastLoad>>
idVars == <<last_saved_id, nextId, anime_id, current_id>>
sessionVars == <<sessionUrl, page>>
dirVars == <<outputDir, caught>>
poolVars == <<total_eps, wstate, attempts, result, driver_lock, episode_entries>>
debugVars == <<debugCalls>>
saveVars == <<progressFile, saves, lastSaveOk>>

\* -------------------------------------------------------- progress tracker

Absent == [exists |-> FALSE, text |-> <<>>]
File(t) == [exists |-> TRUE, text |-> t]

\* load_progress() on a file that can be read
load_progress(f) ==
  IF f.exists /\ ~IntRaises(f.text) THEN int(f.text) ELSE 1

\* How a read of the checkpoint file can end.
LoadOutcomes == {"read", "unreadable"}

\* load_progress() with the outcome of its open/read
load_progress_io(f, o) == IF o = "read" THEN load_progress(f) ELSE 1

\* How the open(..., "w") / write of save_progress can end.
SaveOutcomes == {"ok", "open_fails", "write_fails"}

\* save_progress opening the file for appending instead of overwriting it
save_progress_file_append(f, last_id, o) ==
  CASE o = "ok" -> File(f.text \o str(last_id))
    [] o = "open_fails" -> f
    [] o = "write_fails" -> File(<<>>)

\* the checkpoint file after save_progress(last_id)
save_progress_file(f, last_id, o) ==
  CASE o = "ok" -> File(str(last_id))
    [] o = "open_fails" -> f
    [] o = "write_fails" -> File(<<>>)

\* save_progress(last_id), as called from main
save_progress(last_id) ==
  \E o \in SaveOutcomes :
    /\ progressFile' = save_progress_file(progressFile, last_id, o)
    /\ saves' = Append(saves, last_id)
    /\ lastSaveOk' = (o = "ok")

\* ----------------------------------------------------------- notifications

\* msg_fun / file_fun: the call returns (ok or not ok) or raises.
NotifyOutcomes == {"ok", "not_ok", "raise"}

\* ----------------------------------------------------------- debug capture

\* save_debug_snapshot: the dump files are written and forwarded, and every
\* failure inside is swallowed; the dumps are never read back, so only the call
\* is recorded
save_debug_snapshot(id, reason) == debugCalls' = debugCalls \cup {<<id, reason>>}

\* the capture never taken, whatever TESTING_FLAG says
DebugIfTesting_never(id, reason) == UNCHANGED debugVars

\* "if TESTING_FLAG: save_debug_snapshot(...)"
DebugIfTesting(id, reason) ==
  IF testingFlag THEN save_debug_snapshot(id, reason) ELSE UNCHANGED debugVars

\* ---------------------------------------------------------------- artifacts

\* Elapsed times of one identifier, in tenths of a second.
ElapsedTimes == {5, 725}

\* elapsed_label of main
elapsed_label(t) ==
  IF t < 600
  THEN NatStr(t \div 10) \o <<".">> \o NatStr(t % 10) \o <<"s">>
  ELSE NatStr((t \div 10) \div 60) \o <<"m">> \o NatStr((t \div 10) % 60) \o <<"s">>

\* basename of file_path
ArtifactName(id, label) == <<"anime_">> \o str(id) \o <<"_">> \o label \o <<".bin">>

StartsWith(s, p) == Len(s) >= Len(p) /\ SubSeq(s, 1, Len(p)) = p
EndsWith(s, p) == Len(s) >= Len(p) /\ SubSeq(s, Len(s) - Len(p) + 1, Len(s)) = p

\* the deletion loop matching nothing
IsOlderBin_never(name, id) == FALSE

\* the test of the deletion loop of main
IsOlderBin(name, id) ==
  StartsWith(name, <<"anime_">> \o str(id) \o <<"_">>) /\ EndsWith(name, <<".bin">>)

\* A file of OUTPUT_DIR: its name, the identifier it was written for, and the
\* entries pickled into it (a write that broke off leaves a file that is not
\* intact and holds no entries).
Artifact(name, key, payload, intact) ==
  [name |-> name, key |-> key, payload |-> payload, intact |-> intact]

\* the directory after a file is created or overwritten
WriteFile(dir, f) == {g \in dir : g.name # f.name} \cup {f}

Token(ep, url) == <<ep, url>>

\* ------------------------------------------------------------------- pages

NoPage == [loaded |-> FALSE, title |-> [present |-> FALSE, text |-> <<>>],
           notFound |-> FALSE]

\* The ".ep-title" element of a rendered page: missing, blank, or a title.
Titles == {[present |-> FALSE, text |-> <<>>],
           [present |-> TRUE, text |-> <<" ">>],
           [present |-> TRUE, text |-> <<"T">>]}

\* Rendered watch pages: a title element and whether the content carries a
\* not-found signature.
Pages == {[loaded |-> TRUE, title |-> t, notFound |-> n] : t \in Titles, n \in BOOLEAN}

\* title_text of extract_anime_urls
title_text(pg) == IF pg.title.present THEN strip(pg.title.text) ELSE <<>>

\* Option labels, as text. The shapes explored: an opening token before the
\* range ("EPS 1 - 2"), the same with padding and leading zeros (" Ep 01-02 "),
\* a range with no opening token ("1-2"), a token with one number ("EPS 2"),
\* and a label with no number ("Movie").
RangeLabel(lo, hi) ==
  <<"E", "P", "S", " ">> \o str(lo) \o <<" ", "-", " ">> \o str(hi)
PaddedLabel(lo, hi) ==
  <<" ", "E", "p", " ", "0">> \o str(lo) \o <<"-", "0">> \o str(hi) \o <<" ">>
BareLabel(lo, hi) == str(lo) \o <<"-">> \o str(hi)
SingleLabel(n) == <<"E", "P", "S", " ">> \o str(n)
NoMatchLabel == <<"M", "o", "v", "i", "e">>

\* The labels with the shape each was built in and the upper bound it shows.
LabelCatalog(cap) ==
  {[text |-> RangeLabel(1, h), shape |-> "token_range", high |-> h] : h \in 1..cap}
  \cup {[text |-> PaddedLabel(1, h), shape |-> "token_range", high |-> h] : h \in 1..cap}
  \cup {[text |-> BareLabel(1, h), shape |-> "bare_range", high |-> h] : h \in 1..cap}
  \cup {[text |-> SingleLabel(cap), shape |-> "no_range", high |-> 0],
        [text |-> NoMatchLabel, shape |-> "no_range", high |-> 0]}

Labels(cap) == {c.text : c \in LabelCatalog(cap)}

\* The dropdown of a page: missing, or a list of at most two options whose
\* ranges end at cap or below.
NoSelect == [present |-> FALSE, options |-> <<>>]
Dropdowns(cap) ==
  {NoSelect} \cup
  {[present |-> TRUE, options |-> o] :
     o \in {<<>>} \cup {<<a>> : a \in Labels(cap)}
           \cup {<<a, b>> : a \in Labels(cap), b \in Labels(cap)}}

RECURSIVE DigitsEnd(_, _)
\* the position after the digits of t that start at i (\d+ is greedy)
DigitsEnd(t, i) ==
  IF i <= Len(t) /\ IsDigit(t[i]) THEN DigitsEnd(t, i + 1) ELSE i

RECURSIVE SpacesEnd(_, _)
\* the position after the whitespace of t that starts at i (\s*)
SpacesEnd(t, i) ==
  IF i <= Len(t) /\ IsSpace(t[i]) THEN SpacesEnd(t, i + 1) ELSE i

\* position of the dash when (\d+)\s*-\s*(\d+) matches t from position i, else 0
DashAt(t, i) ==
  IF i <= Len(t) /\ IsDigit(t[i])
  THEN LET j == SpacesEnd(t, DigitsEnd(t, i))
       IN IF j <= Len(t) /\ t[j] = "-"
          THEN LET k == SpacesEnd(t, j + 1)
               IN IF k <= Len(t) /\ IsDigit(t[k]) THEN j ELSE 0
          ELSE 0
  ELSE 0

\* re.search(r"(\d+)\s*-\s*(\d+)", t): the leftmost match and its group 2
range_search(t) ==
  LET starts == {i \in 1..Len(t) : DashAt(t, i) # 0}
  IN IF starts = {}
     THEN [found |-> FALSE, group2 |-> <<>>]
     ELSE LET i == CHOOSE x \in starts : \A y \in starts : x <= y
              k == SpacesEnd(t, DashAt(t, i) + 1)
          IN [found |-> TRUE, group2 |-> SubSeq(t, k, DigitsEnd(t, k) - 1)]

RECURSIVE MaxUpper_last(_, _)
\* the loop keeping the upper bound parsed last
MaxUpper_last(options, max_ep) ==
  IF options = <<>> THEN max_ep
  ELSE LET match == range_search(strip(Head(options)))
       IN IF match.found
          THEN MaxUpper_last(Tail(options), int(match.group2))
          ELSE MaxUpper_last(Tail(options), max_ep)

RECURSIVE MaxUpper(_, _)
\* the loop of get_total_episodes over the options
MaxUpper(options, max_ep) ==
  IF options = <<>> THEN max_ep
  ELSE LET match == range_search(strip(Head(options)))
       IN IF match.found /\ int(match.group2) > max_ep
          THEN MaxUpper(Tail(options), int(match.group2))
          ELSE MaxUpper(Tail(options), max_ep)

get_total_episodes(d) == IF d.present THEN MaxUpper(d.options, 0) ELSE 0

WatchUrl(id) == <<"watch", id>>
EpisodeUrl(id, ep) == <<"watch", id, ep>>

\* The media URL a scan finds in the content of the page at url.
MediaUrl(url) == <<"m3u8">> \o Tail(url)

\* ------------------------------------------------------------------- Init

\* Checkpoint files a run starts from.
RunFiles == {Absent, File(<<"1", "9">>)}

OldArtifact(id) ==
  Artifact(ArtifactName(id, elapsed_label(5)), id,
           <<Token(1, MediaUrl(EpisodeUrl(id, 1)))>>, TRUE)

\* Output directories a run starts from: at most one artifact per identifier.
InitDirs == {{}, {OldArtifact(2), OldArtifact(20)}}

\* Before main has assigned them, the integer locals hold 0.
InitLocals ==
  /\ run = 1
  /\ earlier = {}
  /\ clean = TRUE
  /\ mainExit = "running"
  /\ pending = FALSE
  /\ last_saved_id = 0
  /\ lastLoad = "none"
  /\ nextId = 0
  /\ anime_id = 0
  /\ driver = "none"
  /\ sessionUrl = <<"blank">>
  /\ page = NoPage
  /\ total_eps = 0
  /\ wstate = <<>>
  /\ attempts = <<>>
  /\ result = <<>>
  /\ driver_lock = 0
  /\ episode_entries = <<>>
  /\ episode_data = <<>>
  /\ caught = "none"
  /\ debugCalls = {}
  /\ saves = <<>>
  /\ lastSaveOk = FALSE
  /\ processed = <<>>

\* TESTING_FLAG is set by hand in the source (False as committed): both settings
\* are explored. MAX_ID is taken to parse as an integer.
Init ==
  /\ pc = "load"
  /\ maxId \in 0..MaxCount
  /\ testingFlag \in BOOLEAN
  /\ dropdown = NoSelect
  /\ progressFile \in RunFiles
  /\ outputDir \in InitDirs
  /\ current_id = 0
  /\ InitLocals

\* the start taken at the checkpoint itself
START_ID_same == last_saved_id

START_ID == last_saved_id + 1
END_ID == START_ID + maxId - 1

\* The episode counts explored: up to MaxEps in a first run over at most one
\* identifier, one in a run over several and in the runs after the first.
PageEps == IF maxId <= 1 /\ run = 1 THEN MaxEps ELSE 1

\* ------------------------------------------------------------------- main

\* lines 212-217: load the checkpoint (os.makedirs with exist_ok is taken to
\* succeed)
Load ==
  /\ pc = "load"
  /\ \E o \in LoadOutcomes :
       /\ last_saved_id' = load_progress_io(progressFile, o)
       /\ lastLoad' = o
  /\ pc' = "notify_start"
  /\ UNCHANGED <<mainExit, pending, envVars, nextId, anime_id, current_id,
                 driver, sessionVars, poolVars, episode_data, dirVars, debugVars,
                 saveVars, processed>>

\* lines 219-222: the start notification, outside every try
NotifyStart ==
  /\ pc = "notify_start"
  /\ \E o \in NotifyOutcomes :
       IF o = "raise"
       THEN /\ pc' = "done"
            /\ mainExit' = "raised"
            /\ UNCHANGED current_id
       ELSE /\ pc' = "init_driver"
            /\ current_id' = START_ID
            /\ UNCHANGED mainExit
  /\ UNCHANGED <<pending, runVars, last_saved_id, nextId, anime_id, driver,
                 sessionVars, poolVars, episode_data, dirVars, debugVars,
                 saveVars, processed>>

\* line 225: initialize_driver() returns a session or raises
InitDriver ==
  /\ pc = "init_driver"
  /\ \E created \in BOOLEAN :
       IF created
       THEN /\ driver' = "open"
            /\ nextId' = START_ID
            /\ pc' = "loop"
       ELSE /\ pc' = "fatal"
            /\ UNCHANGED <<driver, nextId>>
  /\ UNCHANGED <<mainExit, pending, runVars, last_saved_id, anime_id, current_id,
                 sessionVars, poolVars, episode_data, dirVars, debugVars,
                 saveVars, processed>>

\* lines 227-228: the next identifier of the range, or its exhaustion
LoopNext ==
  /\ pc = "loop"
  /\ IF nextId <= END_ID
     THEN /\ anime_id' = nextId
          /\ current_id' = nextId
          /\ nextId' = nextId + 1
          /\ debugCalls' = {}
          /\ pc' = "ext_get"
     ELSE /\ pc' = "fin_save"
          /\ UNCHANGED <<anime_id, current_id, nextId, debugCalls>>
  /\ UNCHANGED <<mainExit, pending, runVars, last_saved_id, driver, sessionVars,
                 poolVars, episode_data, dirVars, saveVars, processed>>

\* lines 129-140: navigate to the watch page and wait for its body
ExtGet ==
  /\ pc = "ext_get"
  /\ sessionUrl' = WatchUrl(anime_id)
  /\ \/ /\ page' \in Pages
        /\ pc' = "ext_title"
        /\ UNCHANGED <<episode_data, debugVars>>
     \/ /\ page' = NoPage
        /\ DebugIfTesting(anime_id, "page_load")
        /\ episode_data' = <<>>
        /\ pc' = "check"
  /\ UNCHANGED <<mainExit, pending, runVars, idVars, driver, poolVars, dirVars,
                 saveVars, processed>>

\* lines 142-159: validate by the title element
ExtTitle ==
  /\ pc = "ext_title"
  /\ IF title_text(page) = <<>>
     THEN /\ DebugIfTesting(anime_id, "no_title")
          /\ episode_data' = <<>>
          /\ pc' = "check"
     ELSE /\ pc' = "ext_count"
          /\ UNCHANGED <<episode_data, debugVars>>
  /\ UNCHANGED <<mainExit, pending, runVars, idVars, driver, sessionVars, poolVars,
                 dirVars, saveVars, processed>>

\* lines 161-176: resolve the episode count and submit one fetch per episode
ExtCount ==
  /\ pc = "ext_count"
  /\ \E d \in Dropdowns(PageEps) :
       LET n == get_total_episodes(d)
       IN IF n = 0
          THEN /\ DebugIfTesting(anime_id, "no_dropdown")
               /\ episode_data' = <<>>
               /\ pc' = "check"
               /\ UNCHANGED poolVars
          ELSE /\ total_eps' = n
               /\ wstate' = [e \in 1..n |-> "queued"]
               /\ attempts' = [e \in 1..n |-> 0]
               /\ result' = [e \in 1..n |-> <<>>]
               /\ episode_entries' = <<>>
               /\ pc' = "ext_collect"
               /\ UNCHANGED <<episode_data, debugVars, driver_lock>>
  /\ UNCHANGED <<mainExit, pending, runVars, idVars, driver, sessionVars,
                 dirVars, saveVars, processed>>

\* ------------------------------------------------------------ worker pool

Eps == 1..total_eps

\* The pool runs the fetches in submission order on at most MAX_THREADS
\* threads: the fetch of episode e has a thread once fewer than MAX_THREADS
\* earlier fetches are unfinished.
HasThread(e) ==
  Cardinality({e2 \in Eps : e2 < e /\ wstate[e2] \notin {"finished", "collected"}})
    < MAX_THREADS

\* fetch_episode_threadsafe not waiting for the lock
LockFree_unguarded == TRUE

\* driver_lock can be taken
LockFree == driver_lock = 0

\* line 109: the fetch runs on a pool thread and enters "with driver_lock:"
WAcquire(e) ==
  /\ pc = "ext_collect"
  /\ wstate[e] = "queued"
  /\ HasThread(e)
  /\ LockFree
  /\ driver_lock' = e
  /\ wstate' = [wstate EXCEPT ![e] = "locked"]
  /\ UNCHANGED <<pc, mainExit, pending, runVars, idVars, driver, sessionVars,
                 total_eps, attempts, result, episode_entries, episode_data,
                 dirVars, debugVars, saveVars, processed>>

\* a failed fetch that cancels the fetches still queued behind it
FetchFailed_abort(e) ==
  /\ wstate' = [e2 \in Eps |->
                  IF e2 = e THEN "returning"
                  ELSE IF wstate[e2] = "queued" THEN "collected" ELSE wstate[e2]]
  /\ result' = [result EXCEPT ![e] = <<>>]
  /\ DebugIfTesting(anime_id, "episode_error")

\* lines 120-124: the except branch of fetch_episode_threadsafe
FetchFailed(e) ==
  /\ wstate' = [wstate EXCEPT ![e] = "returning"]
  /\ result' = [result EXCEPT ![e] = <<>>]
  /\ DebugIfTesting(anime_id, "episode_error")

\* lines 111-113: driver.get(ep_url)
WNavigate(e) ==
  /\ pc = "ext_collect"
  /\ wstate[e] = "locked"
  /\ sessionUrl' = EpisodeUrl(anime_id, e)
  /\ page' = NoPage
  /\ \/ /\ wstate' = [wstate EXCEPT ![e] = "extracting"]
        /\ UNCHANGED <<result, debugVars>>
     \/ FetchFailed(e)
  /\ UNCHANGED <<pc, mainExit, pending, runVars, idVars, driver, total_eps,
                 attempts, driver_lock, episode_entries, episode_data, dirVars,
                 saveVars, processed>>

\* the loop of extract_video_url giving up one attempt early
WPress_short(e) ==
  /\ pc = "ext_collect"
  /\ wstate[e] = "extracting"
  /\ attempts[e] < max_presses
  /\ \/ /\ attempts' = [attempts EXCEPT ![e] = @ + 1]
        /\ wstate' = [wstate EXCEPT ![e] = "returning"]
        /\ result' = [result EXCEPT ![e] = Token(e, MediaUrl(sessionUrl))]
        /\ UNCHANGED debugVars
     \/ /\ attempts' = [attempts EXCEPT ![e] = @ + 1]
        /\ wstate' = [wstate EXCEPT ![e] =
                        IF attempts[e] + 2 = max_presses THEN "returning" ELSE @]
        /\ UNCHANGED <<result, debugVars>>
     \/ /\ FetchFailed(e)
        /\ UNCHANGED attempts
  /\ UNCHANGED <<pc, mainExit, pending, runVars, idVars, driver, sessionVars,
                 total_eps, driver_lock, episode_entries, episode_data, dirVars,
                 saveVars, processed>>

\* lines 67-78 and 114-119: one keypress and one scan of extract_video_url,
\* and the return of fetch_episode_threadsafe when the loop ends
WPress(e) ==
  /\ pc = "ext_collect"
  /\ wstate[e] = "extracting"
  /\ attempts[e] < max_presses
  /\ \/ /\ attempts' = [attempts EXCEPT ![e] = @ + 1]
        /\ wstate' = [wstate EXCEPT ![e] = "returning"]
        /\ result' = [result EXCEPT ![e] = Token(e, MediaUrl(sessionUrl))]
        /\ UNCHANGED debugVars
     \/ /\ attempts' = [attempts EXCEPT ![e] = @ + 1]
        /\ wstate' = [wstate EXCEPT ![e] =
                        IF attempts[e] + 1 = max_presses THEN "returning" ELSE @]
        /\ UNCHANGED <<result, debugVars>>
     \/ /\ FetchFailed(e)
        /\ UNCHANGED attempts
  /\ UNCHANGED <<pc, mainExit, pending, runVars, idVars, driver, sessionVars,
                 total_eps, driver_lock, episode_entries, episode_data, dirVars,
                 saveVars, processed>>

\* the with block is left: the lock is released and the future completes
WRelease(e) ==
  /\ pc = "ext_collect"
  /\ wstate[e] = "returning"
  /\ wstate' = [wstate EXCEPT ![e] = "finished"]
  /\ attempts' = [attempts EXCEPT ![e] = 0]
  /\ driver_lock' = 0
  /\ UNCHANGED <<pc, mainExit, pending, runVars, idVars, driver, sessionVars,
                 total_eps, result, episode_entries, episode_data, dirVars,
                 debugVars, saveVars, processed>>

\* lines 177-185: as_completed yields a finished future
Collect(e) ==
  /\ pc = "ext_collect"
  /\ wstate[e] = "finished"
  /\ wstate' = [wstate EXCEPT ![e] = "collected"]
  /\ episode_entries' =
       IF result[e] # <<>> THEN Append(episode_entries, result[e]) ELSE episode_entries
  /\ UNCHANGED <<pc, mainExit, pending, runVars, idVars, driver, sessionVars,
                 total_eps, attempts, result, driver_lock, episode_data, dirVars,
                 debugVars, saveVars, processed>>

\* extract_anime_urls returning with the first future yielded, the others
\* left to the pool
ExtReturn_early ==
  /\ pc = "ext_collect"
  /\ \E e \in Eps : wstate[e] = "collected"
  /\ episode_data' = episode_entries
  /\ pc' = "check"
  /\ UNCHANGED <<mainExit, pending, runVars, idVars, driver, sessionVars, poolVars,
                 dirVars, debugVars, saveVars, processed>>

\* lines 175-187: every future was yielded, the executor is shut down and
\* extract_anime_urls returns
ExtReturn ==
  /\ pc = "ext_collect"
  /\ \A e \in Eps : wstate[e] = "collected"
  /\ episode_data' = episode_entries
  /\ total_eps' = 0
  /\ wstate' = <<>>
  /\ attempts' = <<>>
  /\ result' = <<>>
  /\ episode_entries' = <<>>
  /\ pc' = "check"
  /\ UNCHANGED <<mainExit, pending, runVars, idVars, driver, sessionVars,
                 driver_lock, dirVars, debugVars, saveVars, processed>>

\* --------------------------------------------------- main, after extraction

\* the empty-result branch continuing without save_progress
Check_nosave ==
  /\ pc = "check"
  /\ IF episode_data = <<>>
     THEN /\ processed' = Append(processed, anime_id)
          /\ pc' = "loop"
          /\ UNCHANGED saveVars
     ELSE /\ pc' = "persist"
          /\ UNCHANGED <<saveVars, processed>>
  /\ UNCHANGED <<mainExit, pending, runVars, idVars, driver, sessionVars, poolVars,
                 episode_data, dirVars, debugVars>>

\* the deletion of the older artifact done before the emptiness test
Check_purge ==
  /\ pc = "check"
  /\ outputDir' = {f \in outputDir : ~IsOlderBin(f.name, anime_id)}
  /\ IF episode_data = <<>>
     THEN /\ save_progress(anime_id)
          /\ processed' = Append(processed, anime_id)
          /\ pc' = "loop"
     ELSE /\ pc' = "persist"
          /\ UNCHANGED <<saveVars, processed>>
  /\ UNCHANGED <<mainExit, pending, runVars, idVars, driver, sessionVars, poolVars,
                 episode_data, caught, debugVars>>

\* lines 235-237: nothing to persist
Check ==
  /\ pc = "check"
  /\ IF episode_data = <<>>
     THEN /\ save_progress(anime_id)
          /\ processed' = Append(processed, anime_id)
          /\ pc' = "loop"
     ELSE /\ pc' = "persist"
          /\ UNCHANGED <<saveVars, processed>>
  /\ UNCHANGED <<mainExit, pending, runVars, idVars, driver, sessionVars, poolVars,
                 episode_data, dirVars, debugVars>>

\* the files the deletion loop of main removes
OlderBins(dir, id) == {f \in dir : IsOlderBin(f.name, id)}

\* the new artifact written before the older one is deleted
Persist_writeFirst ==
  /\ pc = "persist"
  /\ \E t \in ElapsedTimes :
       LET old == OlderBins(outputDir, anime_id)
           kept == outputDir \ old
           name == ArtifactName(anime_id, elapsed_label(t))
       IN \/ /\ \E gone \in SUBSET old :
                  /\ gone = {} \/ gone # old
                  /\ outputDir' = outputDir \ gone
             /\ caught' = "remove"
             /\ pc' = "except"
          \/ /\ outputDir' \in
                  {outputDir, WriteFile(outputDir, Artifact(name, anime_id, <<>>, FALSE))}
             /\ caught' = "write"
             /\ pc' = "except"
          \/ /\ outputDir' = WriteFile(kept, Artifact(name, anime_id, episode_data, TRUE))
             /\ pc' = "send"
             /\ UNCHANGED caught
  /\ UNCHANGED <<mainExit, pending, runVars, idVars, driver, sessionVars, poolVars,
                 episode_data, debugVars, saveVars, processed>>

\* lines 239-259: delete the older artifact, write the new one
Persist ==
  /\ pc = "persist"
  /\ \E t \in ElapsedTimes :
       LET old == OlderBins(outputDir, anime_id)
           kept == outputDir \ old
           name == ArtifactName(anime_id, elapsed_label(t))
       IN \/ \* os.listdir or an os.remove raises
             /\ \E gone \in SUBSET old :
                  /\ gone = {} \/ gone # old
                  /\ outputDir' = outputDir \ gone
             /\ caught' = "remove"
             /\ pc' = "except"
          \/ \* gzip.open or pickle.dump raises
             /\ outputDir' \in
                  {kept, WriteFile(kept, Artifact(name, anime_id, <<>>, FALSE))}
             /\ caught' = "write"
             /\ pc' = "except"
          \/ /\ outputDir' = WriteFile(kept, Artifact(name, anime_id, episode_data, TRUE))
             /\ pc' = "send"
             /\ UNCHANGED caught
  /\ UNCHANGED <<mainExit, pending, runVars, idVars, driver, sessionVars, poolVars,
                 episode_data, debugVars, saveVars, processed>>

\* lines 261-267: deliver the artifact (a raise is caught), save progress
Send ==
  /\ pc = "send"
  /\ \E o \in NotifyOutcomes : TRUE
  /\ save_progress(anime_id)
  /\ processed' = Append(processed, anime_id)
  /\ pc' = "loop"
  /\ UNCHANGED <<mainExit, pending, runVars, idVars, driver, sessionVars, poolVars,
                 episode_data, dirVars, debugVars>>

\* lines 269-274: the except branch of the loop body
Except ==
  /\ pc = "except"
  /\ DebugIfTesting(anime_id, "top_level")
  /\ save_progress(anime_id)
  /\ processed' = Append(processed, anime_id)
  /\ caught' = "none"
  /\ pc' = "loop"
  /\ UNCHANGED <<mainExit, pending, runVars, idVars, driver, sessionVars, poolVars,
                 episode_data, outputDir>>

\* lines 278-283: the except branch of main
Fatal ==
  /\ pc = "fatal"
  /\ \E o \in NotifyOutcomes :
       IF o = "raise"
       THEN /\ pending' = TRUE
            /\ UNCHANGED debugVars
       ELSE /\ IF testingFlag /\ driver # "none"
               THEN save_debug_snapshot(current_id, "fatal")
               ELSE UNCHANGED debugVars
            /\ UNCHANGED pending
  /\ pc' = "fin_save"
  /\ UNCHANGED <<mainExit, runVars, idVars, driver, sessionVars, poolVars,
                 episode_data, dirVars, saveVars, processed>>

\* line 286: the checkpoint write of the finally block
FinSave ==
  /\ pc = "fin_save"
  /\ save_progress(current_id)
  /\ pc' = "fin_quit"
  /\ UNCHANGED <<mainExit, pending, runVars, idVars, driver, sessionVars, poolVars,
                 episode_data, dirVars, debugVars, processed>>

\* the finally block leaving the session as it is
FinQuit_leak ==
  /\ pc = "fin_quit"
  /\ pc' = "fin_notify"
  /\ UNCHANGED <<mainExit, pending, runVars, idVars, driver, sessionVars, poolVars,
                 episode_data, dirVars, debugVars, saveVars, processed>>

\* lines 287-291: driver.quit() if a session exists (a raise is swallowed)
FinQuit ==
  /\ pc = "fin_quit"
  /\ driver' = IF driver = "none" THEN "none" ELSE "closed"
  /\ pc' = "fin_notify"
  /\ UNCHANGED <<mainExit, pending, runVars, idVars, sessionVars, poolVars,
                 episode_data, dirVars, debugVars, saveVars, processed>>

\* line 292: the run-ended notification; main returns or an exception leaves it
FinNotify ==
  /\ pc = "fin_notify"
  /\ \E o \in NotifyOutcomes :
       mainExit' = IF o = "raise" \/ pending THEN "raised" ELSE "returned"
  /\ pc' = "done"
  /\ UNCHANGED <<pending, runVars, idVars, driver, sessionVars, poolVars,
                 episode_data, dirVars, debugVars, saveVars, processed>>

Worker ==
  \E e \in Eps : WAcquire(e) \/ WNavigate(e) \/ WPress(e) \/ WRelease(e)

Next ==
  \/ Load
  \/ NotifyStart
  \/ InitDriver
  \/ LoopNext
  \/ ExtGet
  \/ ExtTitle
  \/ ExtCount
  \/ Worker
  \/ \E e \in Eps : Collect(e)
  \/ ExtReturn
  \/ Check
  \/ Persist
  \/ Send
  \/ Except
  \/ Fatal
  \/ FinSave
  \/ FinQuit
  \/ FinNotify

Spec == Init /\ [][Next]_vars

\* --------------------------------------------------------------- fairness

\* the steps of the orchestrator thread
Main ==
  \/ Load
  \/ NotifyStart
  \/ InitDriver
  \/ LoopNext
  \/ ExtGet
  \/ ExtTitle
  \/ ExtCount
  \/ \E e \in Eps : Collect(e)
  \/ ExtReturn
  \/ Check
  \/ Persist
  \/ Send
  \/ Except
  \/ Fatal
  \/ FinSave
  \/ FinQuit
  \/ FinNotify

\* Every call of the orchestrator returns or raises, and the pool threads keep
\* running: a thread that can step is not held back for ever.
SpecFair == Init /\ [][Next]_vars /\ WF_vars(Main) /\ WF_vars(Worker)

\* ------------------------------------------------------- consecutive runs

\* main is started again after the run before it has ended (the script is run
\* again with the same environment): the locals are fresh, the checkpoint file
\* and the output directory are as the run before left them.
Restart ==
  /\ pc = "done"
  /\ run < MaxRuns
  /\ run' = run + 1
  /\ earlier' = earlier \cup {processed[i] : i \in 1..Len(processed)}
  /\ clean' = (clean /\ (saves = <<>> \/ (lastSaveOk /\ lastLoad = "read")))
  /\ pc' = "load"
  /\ mainExit' = "running"
  /\ pending' = FALSE
  /\ last_saved_id' = 0
  /\ lastLoad' = "none"
  /\ nextId' = 0
  /\ anime_id' = 0
  /\ current_id' = 0
  /\ driver' = "none"
  /\ sessionUrl' = <<"blank">>
  /\ page' = NoPage
  /\ debugCalls' = {}
  /\ saves' = <<>>
  /\ lastSaveOk' = FALSE
  /\ processed' = <<>>
  /\ episode_data' = <<>>
  /\ UNCHANGED <<maxId, testingFlag, dropdown, progressFile, poolVars, dirVars>>

\* The first of the runs starts from checkpoint 19 with an empty output
\* directory and TESTING_FLAG as committed.
InitRuns ==
  /\ pc = "load"
  /\ maxId \in 0..MaxCount
  /\ testingFlag = FALSE
  /\ dropdown = NoSelect
  /\ progressFile = File(<<"1", "9">>)
  /\ outputDir = {}
  /\ current_id = 0
  /\ InitLocals

NextRuns == Next \/ Restart

SpecRuns == InitRuns /\ [][NextRuns]_vars

\* ------------------------------------- the progress tracker on its own

\* Checkpoint files the tracker is tried on: absent, empty, non-numeric text,
\* and the spellings int() accepts.
ProgressFiles ==
  {Absent, File(<<>>), File(<<"x">>), File(<<"1", ".", "5">>), File(<<"1", "_">>),
   File(<<"7">>), File(<<" ", "7", "\n">>), File(<<"1", "_", "2">>),
   File(<<"-", "3">>), File(<<"+", "4">>)}

\* save_progress(k) for a k in 0..MaxK, then load_progress(); or load_progress()
\* on the file as found. current_id holds k.
InitProgress ==
  /\ pc = "p_save"
  /\ maxId = 0
  /\ testingFlag = FALSE
  /\ dropdown = NoSelect
  /\ progressFile \in ProgressFiles
  /\ outputDir = {}
  /\ current_id \in 0..MaxK
  /\ InitLocals

PSave ==
  /\ pc = "p_save"
  /\ save_progress(current_id)
  /\ pc' = "p_load"
  /\ UNCHANGED <<mainExit, pending, runVars, idVars, driver, sessionVars, poolVars,
                 episode_data, dirVars, debugVars, processed>>

PLoad ==
  /\ pc \in {"p_save", "p_load"}
  /\ \E o \in LoadOutcomes :
       /\ last_saved_id' = load_progress_io(progressFile, o)
       /\ lastLoad' = o
  /\ pc' = "p_done"
  /\ UNCHANGED <<mainExit, pending, envVars, nextId, anime_id, current_id,
                 driver, sessionVars, poolVars, episode_data, dirVars, debugVars,
                 saveVars, processed>>

NextProgress == PSave \/ PLoad

SpecProgress == InitProgress /\ [][NextProgress]_vars

\* ------------------------------------------- get_total_episodes on its own

\* get_total_episodes called on a page with any of the dropdowns; total_eps
\* holds what it returns.
InitCount ==
  /\ pc = "c_options"
  /\ maxId = 0
  /\ testingFlag = FALSE
  /\ dropdown \in Dropdowns(MaxEps)
  /\ progressFile = Absent
  /\ outputDir = {}
  /\ current_id = 0
  /\ InitLocals

Resolve ==
  /\ pc = "c_options"
  /\ total_eps' = get_total_episodes(dropdown)
  /\ pc' = "c_done"
  /\ UNCHANGED <<mainExit, pending, runVars, idVars, driver, sessionVars, wstate,
                 attempts, result, driver_lock, episode_entries, episode_data,
                 dirVars, debugVars, saveVars, processed>>

NextCount == Resolve

SpecCount == InitCount /\ [][NextCount]_vars

\* ------------------------------------------------------------ properties

\* the orchestrator is inside the loop body of main
LoopBody ==
  {"ext_get", "ext_title", "ext_count", "ext_collect", "check", "persist", "send",
   "except"}

\* the step is a navigate, keypress or content read of episode e's fetch
SessionAccess(e) ==
  \/ wstate[e] = "locked" /\ wstate'[e] # "locked"
  \/ wstate[e] = "extracting" /\ (attempts'[e] # attempts[e] \/ wstate'[e] # "extracting")

\* C1: between the navigate of episode e and the completion of its extraction,
\* no navigate, keypress or content read of another episode touches the session.
C1_NoInterleaving ==
  [][\A e \in Eps : \A e2 \in Eps \ {e} :
       wstate[e] = "extracting" => ~SessionAccess(e2)]_vars

\* C1 witness: episode 2 is in the middle of its extraction (navigated, one
\* attempt made) while the fetch of episode 1 is still waiting for the lock.
C1_Witness ==
  /\ pc = "ext_collect"
  /\ total_eps = 2
  /\ wstate[2] = "extracting"
  /\ attempts[2] = 1
  /\ wstate[1] = "queued"

\* save_progress(i) was the last checkpoint call, the loop body of i ran to its
\* end, and the file holds i when that write succeeded
Checkpointed(i) ==
  /\ saves # <<>>
  /\ saves[Len(saves)] = i
  /\ processed # <<>>
  /\ processed[Len(processed)] = i
  /\ lastSaveOk => (progressFile = File(str(i)) /\ load_progress(progressFile) = i)

\* C2 (amended): whatever the outcome of the stages of identifier i,
\* save_progress(i) is invoked before the loop moves on, and while i+1 is
\* processed the checkpoint file holds i unless that write failed.
C2_CheckpointBeforeNext ==
  /\ (pc = "loop" /\ nextId > START_ID) => Checkpointed(nextId - 1)
  /\ (pc \in LoopBody /\ anime_id > START_ID) => Checkpointed(anime_id - 1)

\* C2 witness: processing of i+1 begins after the artifact write of i failed,
\* and the checkpoint file holds i.
C2_Witness ==
  /\ pc = "ext_get"
  /\ anime_id = START_ID + 1
  /\ progressFile = File(str(START_ID))
  /\ \E f \in outputDir : f.key = START_ID /\ ~f.intact

\* C2 as stated: the checkpoint equals i whenever processing of i+1 is under way.
C2_Original ==
  (pc \in LoopBody /\ anime_id > START_ID) => progressFile = File(str(anime_id - 1))

\* C3 as stated: however main ends, a checkpoint write was attempted and a
\* created session is closed.
C3_Original == pc = "done" => (saves # <<>> /\ driver # "open")

\* C4 as stated: a page whose content carries a not-found signature is never
\* taken further than validation.
C4_Original ==
  (sessionUrl = WatchUrl(anime_id) /\ page.loaded /\ page.notFound)
    => pc \notin {"ext_count", "ext_collect"}

\* the episode numbers of a payload increase strictly
Ascending(payload) ==
  \A i \in 1..(Len(payload) - 1) : payload[i][1] < payload[i + 1][1]

\* C5 as stated: the tokens of every artifact are in increasing episode order.
C5_Original == \A f \in outputDir : Ascending(f.payload)

KeyedBy(dir, i) == {f \in dir : f.key = i}

\* C6: the output directory never holds two artifacts of one identifier; after
\* the write for identifier i exactly one file is keyed by i, the new one; and
\* no step removes a file keyed by an identifier other than the current one.
C6_OneArtifactPerId ==
  /\ [](\A f \in outputDir : \A g \in outputDir : f.key = g.key => f = g)
  /\ [](pc = "send" =>
          \E f \in outputDir :
            /\ KeyedBy(outputDir, anime_id) = {f}
            /\ f.intact
            /\ f.payload = episode_data)
  /\ [][\A f \in outputDir \ outputDir' : f.key = anime_id]_vars

\* C6 witness: the artifact of identifier 20 was written under a label other
\* than the one of its prior artifact, and the prior artifact of 2 is in place.
C6_Witness ==
  /\ pc = "send"
  /\ anime_id = 20
  /\ OldArtifact(2) \in outputDir
  /\ \E f \in outputDir :
       f.key = 20 /\ f.name = ArtifactName(20, elapsed_label(725))

\* C7 as stated: every value handed to save_progress is an identifier whose
\* loop body has run.
C7_Original ==
  \A i \in 1..Len(saves) : \E j \in 1..Len(processed) : processed[j] = saves[i]

\* C8 as stated: a run in which the session was created and main returned has
\* processed exactly last_saved_id+1 .. last_saved_id+MAX_ID in order, and the
\* checkpoint (when its last write succeeded) is last_saved_id+MAX_ID.
C8_Original ==
  (pc = "done" /\ mainExit = "returned" /\ driver = "closed") =>
    /\ processed = [i \in 1..maxId |-> last_saved_id + i]
    /\ lastSaveOk => progressFile = File(str(last_saved_id + maxId))

\* the text holds no digit at all, or a character no integer literal has
NonNumeric(t) ==
  \/ \A i \in 1..Len(t) : ~IsDigit(t[i])
  \/ \E i \in 1..Len(t) : ~IsDigit(t[i]) /\ ~IsSpace(t[i]) /\ t[i] \notin {"+", "-", "_"}

\* C9 (amended): save_progress(k) whose write succeeds, followed by a
\* load_progress() that can read the file, returns k; load_progress() returns 1
\* when the file is absent, unreadable or non-numeric.
C9_RoundTrip ==
  pc = "p_done" =>
    /\ (saves # <<>> /\ lastSaveOk /\ lastLoad = "read") => last_saved_id = current_id
    /\ (lastLoad = "unreadable" \/ ~progressFile.exists \/ NonNumeric(progressFile.text))
         => last_saved_id = 1

\* C9 witness: a two-digit k written over an older checkpoint is read back.
C9_Witness ==
  /\ pc = "p_done"
  /\ saves = <<12>>
  /\ lastSaveOk
  /\ lastLoad = "read"
  /\ last_saved_id = 12

\* C9 as stated: save_progress(k) followed by a load_progress() that reads the
\* file returns k.
C9_Original ==
  (pc = "p_done" /\ saves # <<>> /\ lastLoad = "read") => last_saved_id = current_id

\* C10 as stated: no failure of a notification makes an exception leave main.
C10_Original == mainExit # "raised"

\* validation of the current identifier ended Invalid: the page did not load,
\* or its title element is missing or blank
InvalidByLoad == pc = "check" /\ sessionUrl = WatchUrl(anime_id) /\ ~page.loaded
InvalidByTitle ==
  pc = "check" /\ sessionUrl = WatchUrl(anime_id) /\ page.loaded
    /\ title_text(page) = <<>>

\* C11 (amended): when validation of an identifier yields Invalid,
\* save_debug_snapshot is invoked for it with the reason before it is skipped
\* if TESTING_FLAG is set, and is not invoked at all if it is not.
C11_DebugOnInvalid ==
  /\ InvalidByLoad => (testingFlag <=> <<anime_id, "page_load">> \in debugCalls)
  /\ InvalidByTitle => (testingFlag <=> <<anime_id, "no_title">> \in debugCalls)
  /\ ~testingFlag => debugCalls = {}

\* C11 witness: with TESTING_FLAG set, a page with a blank title was captured.
C11_Witness ==
  /\ InvalidByTitle
  /\ page.title.present
  /\ debugCalls = {<<anime_id, "no_title">>}

\* C11 as stated: in every configuration an Invalid validation is captured.
C11_Original ==
  /\ InvalidByLoad => <<anime_id, "page_load">> \in debugCalls
  /\ InvalidByTitle => <<anime_id, "no_title">> \in debugCalls

\* the stages of the loop body that precede persistence
BeforePersist == {"ext_get", "ext_title", "ext_count", "ext_collect", "check"}

\* C12 (amended): while an identifier is validated, resolved and fetched, and
\* when its entry set turns out empty, the output directory is left as it was
\* (nothing written, nothing deleted); the empty outcome calls save_progress(i)
\* once, and the checkpoint file holds i if that write succeeded.
C12_EmptyLeavesDir ==
  [][/\ pc \in BeforePersist => outputDir' = outputDir
     /\ (pc = "check" /\ episode_data = <<>>) =>
          /\ pc' = "loop"
          /\ saves' = Append(saves, anime_id)
          /\ lastSaveOk' => progressFile' = File(str(anime_id))]_vars

\* C12 witness: identifier 20 was skipped for an invalid page, its older
\* artifact is still in the directory and the checkpoint holds 20.
C12_Witness ==
  /\ pc = "loop"
  /\ processed # <<>>
  /\ processed[Len(processed)] = 20
  /\ sessionUrl = WatchUrl(20)
  /\ OldArtifact(20) \in outputDir
  /\ lastSaveOk
  /\ progressFile = File(str(20))

\* C12 as stated: the empty outcome leaves the directory alone and the
\* checkpoint is set to i.
C12_Original ==
  [][(pc = "check" /\ episode_data = <<>>) =>
       /\ outputDir' = outputDir
       /\ progressFile' = File(str(anime_id))]_vars

\* the order in which one fetch passes through its positions
FetchSteps ==
  { <<"queued", "locked">>, <<"locked", "extracting">>, <<"locked", "returning">>,
    <<"extracting", "returning">>, <<"returning", "finished">>,
    <<"finished", "collected">> }

\* the entries collected so far: one per collected episode whose fetch returned
\* a token, none for any other episode, each the token of its own episode
EntriesExact ==
  /\ \A i \in 1..Len(episode_entries) :
       /\ episode_entries[i][1] \in Eps
       /\ episode_entries[i] = result[episode_entries[i][1]]
       /\ episode_entries[i][2] =
            MediaUrl(EpisodeUrl(anime_id, episode_entries[i][1]))
  /\ \A e \in Eps :
       Cardinality({i \in 1..Len(episode_entries) : episode_entries[i][1] = e})
         = IF wstate[e] = "collected" /\ result[e] # <<>> THEN 1 ELSE 0

\* C13: for a resolved count N every episode 1..N is fetched exactly once
\* whatever happens to its siblings (each fetch goes once through lock,
\* navigation, extraction, release and collection, and extract_anime_urls
\* returns only when all N were collected), and the collected set holds exactly
\* one entry per episode whose extraction found a URL and none for the others.
C13_EveryEpisodeOnce ==
  [][pc = "ext_collect" =>
       /\ EntriesExact
       /\ pc' = "ext_collect" =>
            \A e \in Eps :
              /\ wstate'[e] # wstate[e] => <<wstate[e], wstate'[e]>> \in FetchSteps
              /\ (wstate[e] = "locked" /\ wstate'[e] # "locked") =>
                   sessionUrl' = EpisodeUrl(anime_id, e)
       /\ pc' # "ext_collect" =>
            /\ pc' = "check"
            /\ \A e \in Eps : wstate[e] = "collected"
            /\ episode_data' = episode_entries]_vars

\* C13 witness: of two episodes the fetch of episode 1 raised and the fetch of
\* episode 2 found its URL; both were collected, only episode 2 has an entry.
C13_Witness ==
  /\ pc = "ext_collect"
  /\ total_eps = 2
  /\ <<anime_id, "episode_error">> \in debugCalls
  /\ wstate[1] = "collected" /\ result[1] = <<>>
  /\ wstate[2] = "collected" /\ result[2] # <<>>
  /\ episode_entries = <<result[2]>>

\* C14: extract_video_url makes at most max_presses attempts, each one
\* keypress followed by one scan; the first attempt whose scan matches ends it
\* with that match and no further keypress; it ends with not-found only when
\* exactly max_presses attempts have all failed to match.
C14_BoundedPresses ==
  [][(pc = "ext_collect" /\ pc' = "ext_collect") =>
       \A e \in Eps :
         /\ attempts[e] <= max_presses
         /\ attempts'[e] # attempts[e] =>
              IF wstate[e] = "extracting"
              THEN /\ attempts'[e] = attempts[e] + 1
                   /\ attempts'[e] <= max_presses
                   /\ sessionUrl = EpisodeUrl(anime_id, e)
                   /\ IF result'[e] # <<>>
                      THEN /\ wstate'[e] = "returning"
                           /\ result'[e] = Token(e, MediaUrl(sessionUrl))
                      ELSE wstate'[e] = "returning"
                             <=> attempts'[e] = max_presses
              ELSE wstate[e] = "returning" /\ wstate'[e] = "finished"
         /\ (wstate[e] = "extracting" /\ wstate'[e] = "extracting") =>
              attempts'[e] < max_presses]_vars

\* C14 witness: the fetch of episode 1 ended with not-found after max_presses
\* attempts.
C14_Witness ==
  /\ pc = "ext_collect"
  /\ wstate[1] = "returning"
  /\ result[1] = <<>>
  /\ attempts[1] = max_presses

\* the upper bounds shown by the options of dropdown whose label was built in
\* one of the given shapes
ShownUppers(shapes) ==
  {c.high : c \in {x \in LabelCatalog(MaxEps) :
                     /\ x.shape \in shapes
                     /\ \E i \in 1..Len(dropdown.options) :
                          dropdown.options[i] = x.text}}

SetMax(S) == IF S = {} THEN 0 ELSE CHOOSE x \in S : \A y \in S : y <= x

\* C15 (amended): get_total_episodes returns the largest upper bound over the
\* options whose label contains "<low> - <high>", with or without an opening
\* token before it, whatever the order of the options; it returns 0 when the
\* control is missing, has no options, or no label contains such a range.
C15_MaxOfRanges ==
  pc = "c_done" => total_eps = SetMax(ShownUppers({"token_range", "bare_range"}))

\* C15 witness: the larger upper bound comes first and the last option is a
\* range without opening token; the count is the larger bound.
C15_Witness ==
  /\ pc = "c_done"
  /\ dropdown.options = <<PaddedLabel(1, 2), BareLabel(1, 1)>>
  /\ total_eps = 2

\* C15 as stated: only labels of the shape "<opening-token> <low> - <high>"
\* count, and the result is 0 when no label has that shape.
C15_Original ==
  pc = "c_done" => total_eps = SetMax(ShownUppers({"token_range"}))

\* C16: within one run the session is created at most once and, if created,
\* closed exactly once; the close comes after the checkpoint write of the
\* finally block and before the run-ended notification, and once the session
\* is closed nothing navigates it, reads it, sends it a key or captures it.
C16_SessionLifecycle ==
  [][/\ driver' # driver =>
          \/ driver = "none" /\ driver' = "open" /\ pc = "init_driver"
          \/ /\ driver = "open" /\ driver' = "closed"
             /\ pc = "fin_quit" /\ pc' = "fin_notify"
             /\ saves # <<>> /\ saves[Len(saves)] = current_id
             /\ mainExit = "running"
     /\ driver = "closed" =>
          /\ pc \in {"fin_notify", "done"}
          /\ UNCHANGED <<driver, sessionVars, poolVars, debugVars, saveVars>>
     /\ (pc # "done" /\ pc' = "done") => driver' # "open"]_vars

\* C16 witness: a run that processed an identifier has ended with its session
\* closed.
C16_Witness ==
  /\ pc = "done"
  /\ mainExit = "returned"
  /\ driver = "closed"
  /\ processed # <<>>

\* a fetch submitted to the pool that has not returned yet
Unfinished(e) == wstate[e] \in {"queued", "locked", "extracting", "returning"}

\* C17: while any fetch submitted for an identifier is pending or running the
\* orchestrator thread is inside extract_anime_urls collecting futures, and no
\* step of it touches the session (navigation, page read, capture, close):
\* the session changes only by the worker that holds driver_lock.
\* extract_anime_urls returns only when all N fetches have finished.
C17_MainWaitsForWorkers ==
  [][(\E e \in Eps : Unfinished(e)) =>
       /\ pc = "ext_collect" /\ pc' = "ext_collect"
       /\ driver = "open" /\ driver' = "open"
       /\ <<sessionVars, debugVars>>' # <<sessionVars, debugVars>> =>
            /\ driver_lock \in Eps
            /\ Unfinished(driver_lock)
            /\ wstate'[driver_lock] # wstate[driver_lock]]_vars

\* C17 witness: the orchestrator has collected the fetch of episode 1 and is
\* waiting while the fetch of episode 2 holds the session.
C17_Witness ==
  /\ pc = "ext_collect"
  /\ total_eps = 2
  /\ wstate[1] = "collected"
  /\ wstate[2] = "extracting"
  /\ driver_lock = 2

\* C18 (amended): within one run the values handed to save_progress never
\* decrease and each is greater than the checkpoint loaded at the start of the
\* run; across consecutive runs no identifier is processed by more than one
\* run as long as every run that wrote the checkpoint had read the file and
\* succeeded in its last write, and this run read the file.
C18_MonotoneCheckpoints ==
  /\ \A i \in 1..Len(saves) : saves[i] > last_saved_id
  /\ \A i \in 1..Len(saves) : \A j \in i..Len(saves) : saves[i] <= saves[j]
  /\ (clean /\ lastLoad = "read") =>
       \A i \in 1..Len(processed) : processed[i] \notin earlier

\* C18 witness: a second run, started from a checkpoint the first run wrote
\* with success, has processed identifiers after those of the first.
C18_Witness ==
  /\ pc = "done"
  /\ run = 2
  /\ clean
  /\ lastLoad = "read"
  /\ earlier = {20, 21}
  /\ processed = <<22, 23>>
  /\ saves = <<22, 23, 23>>

\* C18 as stated: no identifier is processed by more than one run.
C18_Original == \A i \in 1..Len(processed) : processed[i] \notin earlier

\* the step of main in which the write of the new artifact raises
WriteFails == pc = "persist" /\ caught' = "write"

\* C19 (amended): the older artifacts of identifier i are deleted before the
\* new one is written, so when the write raises the directory holds none of
\* the artifacts of i it held before: it holds no file of i, or one file that
\* is not an intact artifact. The files of the other identifiers stay.
C19_FailedWriteLosesOld ==
  [][WriteFails =>
       /\ \A f \in OlderBins(outputDir, anime_id) : f \notin outputDir'
       /\ \A f \in outputDir' : f.key = anime_id => ~f.intact
       /\ Cardinality(KeyedBy(outputDir', anime_id)) <= 1
       /\ \A f \in outputDir : f.key # anime_id => f \in outputDir']_vars

\* C19 witness: the write for identifier 20 raised; the artifact 20 had before
\* is gone and nothing of 20 is left, the artifact of 2 is still there.
C19_Witness ==
  /\ pc = "except"
  /\ caught = "write"
  /\ anime_id = 20
  /\ outputDir = {OldArtifact(2)}

\* C19 as stated: when the write raises, the artifact i had before is still
\* in the directory.
C19_Original ==
  [][WriteFails =>
       \A f \in OlderBins(outputDir, anime_id) : f \in outputDir']_vars

\* the finally block of main has been entered
InShutdown == pc \in {"fin_save", "fin_quit", "fin_notify"}

\* What holds of C20: every run ends, and once the fetches of an identifier
\* are submitted they all complete and extract_anime_urls returns with the
\* lock released.
Terminates ==
  /\ <>(pc = "done")
  /\ [](pc = "ext_collect" => <>(pc = "check" /\ driver_lock = 0))

\* C20 as stated: the fetches of every identifier complete with the lock
\* released and every run reaches Shutdown.
C20_Original ==
  /\ [](pc = "ext_collect" => <>(pc = "check" /\ driver_lock = 0))
  /\ <>InShutdown

====
